---- MODULE Spec2Model ----
(***************************************************************************)
(* Model of hydra::ReconstructionVisualizer                                *)
(* (hydra_ros/src/visualizer/reconstruction_visualizer.cpp): the retained  *)
(* state it keeps between visualization passes, the messages each pass     *)
(* hands to its marker publishers, and the retained-mode surface that      *)
(* receives them; and of the per-label publishers of                       *)
(* hydra::ObjectVisualizer (segmented_vertices_pub_).                      *)
(***************************************************************************)
EXTENDS FiniteSets, Integers, Sequences, TLC

\* ------------------------------------------------------------------ bounds

\* Node ids of the places layer range over 1..MaxNode.
MaxNode == 2

\* Reconfigure requests served while one pass is in progress.
MaxCallbacks == 1

NodeIds == 1 .. MaxNode

\* Timestamps (ns) handed to a pass: below and above one second.
Timestamps == {1, 1000000002}

\* Sizes of a slice marker's point list: empty, or some points.
PointCounts == {0, 2}

\* ------------------------------------------------------------ configuration

world_frame == "world"

topology_marker_ns == "topology"

\* Values a dynamic-reconfigure request can carry.
LayerConfigs == [use_label : BOOLEAN]

ColormapConfigs == {"ironbow", "rainbow"}

GvdVisualizerConfigs ==
  { [gvd_min_distance |-> 0, gvd_max_distance |-> 1],
    [gvd_min_distance |-> 2, gvd_max_distance |-> 3] }

\* ------------------------------------------------------------------ inputs

\* Layer<GvdVoxel>: the number of points each slice marker draws from it.
\* GVD and surface voxels are observed voxels, so they are drawn only where the
\* ESDF slice has points.
GvdLayers ==
  { l \in [esdf : PointCounts, gvd : PointCounts, surface : PointCounts] :
      l.gvd <= l.esdf /\ l.surface <= l.esdf }

\* SceneGraphLayer: its node ids (the edge marker that accompanies the node
\* marker on "graph_viz" and "freespace_graph_viz" is left out of the messages).
SceneGraphLayers == [nodes : SUBSET NodeIds]

EmptyLayer == [nodes |-> {}]

\* GraphExtractorInterface*: null, a plain extractor, or a
\* CompressionGraphExtractor; getGraph() and getGvdGraph().
NullExtractor == [kind |-> "null", graph |-> EmptyLayer, gvd_graph_empty |-> TRUE]

Extractors ==
  {NullExtractor} \cup
  [kind : {"generic", "compression"}, graph : SceneGraphLayers,
   gvd_graph_empty : BOOLEAN]

\* The arguments of one pass. The slice markers and the graph publications
\* share no state: the layer varies in full against the passes without places,
\* and every extractor is tried with the layer whose slices all have points.
FullLayer == [esdf |-> 2, gvd |-> 2, surface |-> 2]

PassInputs ==
  { in \in [timestamp_ns : Timestamps, gvd : GvdLayers, extractor : Extractors] :
      in.gvd = FullLayer \/ in.extractor.graph.nodes = {} }

\* ----------------------------------------------------------------- markers

\* std_msgs::Header with header.stamp.fromNSec(timestamp_ns).
Header(frame, timestamp_ns) ==
  [frame_id |-> frame,
   stamp |-> [sec |-> timestamp_ns \div 1000000000,
              nsec |-> timestamp_ns % 1000000000]]

\* A default-constructed std_msgs::Header.
DefaultHeader == [frame_id |-> "", stamp |-> [sec |-> 0, nsec |-> 0]]

AddMarker(header, ns, id) ==
  [action |-> "ADD", ns |-> ns, id |-> id, header |-> header]

makeDeleteMarker(header, id, ns) ==
  [action |-> "DELETE", ns |-> ns, id |-> id, header |-> header]

\* ------------------------------------------------- the publisher group (gate)

\* MarkerGroupPub::publish(name, callback): the callback has built `markers` and
\* returned `ok`; it was invoked once, and the message goes out only if ok.
publish(s, name, ok, markers) ==
  [s EXCEPT !.invoked = Append(@, name),
            !.sent = IF ok THEN Append(@, [chan |-> name, markers |-> markers])
                           ELSE @]

\* What a publication read from config_ (kept per publication, in order).
read(s, fields) == [s EXCEPT !.reads = Append(@, fields)]

\* An assignment to a member that outlives the pass: the member, the channel
\* whose processing made it, and the channels handed to the publisher group
\* by then.
write(s, field, by) ==
  [s EXCEPT !.writes = Append(@, [field |-> field, by |-> by,
                                  handed |-> s.invoked])]

\* -------------------------------------------------------- GVD slice markers

\* makeEsdfMarker / makeGvdMarker / makeSurfaceVoxelMarker / makeErrorMarker:
\* one marker whose points come from the layer.
PointMarker(header, ns, npoints) ==
  [action |-> "ADD", ns |-> ns, id |-> 0, header |-> header, points |-> npoints]

\* The callbacks' decision: `if (msg.points.size()) return true; else return false;`
HasPointsAlways(msg) == TRUE

HasPoints(msg) == msg.points > 0

SliceConfig(s) == [gvd |-> s.config_.gvd, colormap |-> s.config_.colormap]

visualizeGvd(s, header, gvd) ==
  LET esdf    == PointMarker(header, "gvd_visualizer", gvd.esdf)
      s1      == publish(read(s, SliceConfig(s)), "esdf_viz", HasPoints(esdf), {esdf})
      gvdm    == PointMarker(header, "gvd_visualizer", gvd.gvd)
      s2      == publish(read(s1, SliceConfig(s1)), "gvd_viz", HasPoints(gvdm), {gvdm})
      surface == PointMarker(header, "gvd_visualizer", gvd.surface)
  IN publish(read(s2, SliceConfig(s2)), "surface_viz", HasPoints(surface), {surface})

visualizeError(s, timestamp_ns, npoints) ==
  LET msg == PointMarker(Header(s.config_.world_frame, timestamp_ns), "", npoints)
  IN publish(read(s, SliceConfig(s)), "error_viz", HasPoints(msg), {msg})

visualizeBlocks(s, header, gvd) ==
  publish(s, "voxel_block_viz", TRUE,
          {AddMarker(header, "topology_server_blocks", 0)})

\* ------------------------------------------------------------ places graph

GraphConfig(s) ==
  [graph_layer |-> s.config_.graph_layer, graph |-> s.config_.graph,
   colormap |-> s.config_.colormap]

LabelConfig(s) ==
  [graph_layer |-> s.config_.graph_layer, graph |-> s.config_.graph]

\* makeCentroidMarkers: the node marker of the layer.
LayerMarkers(header, graph, ns) == {AddMarker(header, ns \o "_nodes", 0)}

\* makePlaceSpheres: one sphere per place, ids 0 .. n-1.
makePlaceSpheres(header, graph, ns) ==
  {AddMarker(header, ns, id) : id \in 0 .. Cardinality(graph.nodes) - 1}

FreespaceDeleteMarkersShort(previous_spheres, spheres, ns) ==
  {[action |-> "DELETE", ns |-> ns, id |-> id, header |-> DefaultHeader] :
     id \in 0 .. previous_spheres - 2}

\* The loop `for (size_t id = 0; id < previous_spheres_; ++id)`: a DELETE marker
\* whose only assigned fields are action, id and ns.
FreespaceDeleteMarkers(previous_spheres, spheres, ns) ==
  {[action |-> "DELETE", ns |-> ns, id |-> id, header |-> DefaultHeader] :
     id \in 0 .. previous_spheres - 1}

FreespaceMessagesSwapped(delete_markers, spheres) == <<spheres, delete_markers>>

\* The two publications on "freespace_viz", in the order the code makes them.
FreespaceMessages(delete_markers, spheres) == <<delete_markers, spheres>>

NewPreviousSpheresAdded(previous_spheres, spheres) ==
  previous_spheres + Cardinality(spheres)

\* `previous_spheres_ = spheres.markers.size();`
NewPreviousSpheres(previous_spheres, spheres) == Cardinality(spheres)

publishFreespace(s, header, graph) ==
  LET label_ns == s.config_.topology_marker_ns \o "_freespace"
      spheres  == makePlaceSpheres(header, graph, label_ns)
      delete_markers ==
        FreespaceDeleteMarkers(s.previous_spheres_, spheres, label_ns)
      s1 == write([s EXCEPT !.previous_spheres_ =
                              NewPreviousSpheres(s.previous_spheres_, spheres)],
                  "previous_spheres_", "freespace_viz")
      msgs == FreespaceMessages(delete_markers, spheres)
      s2 == publish(s1, "freespace_viz", TRUE, msgs[1])
      s3 == publish(s2, "freespace_viz", TRUE, msgs[2])
  IN publish(read(s3, LabelConfig(s3)), "freespace_graph_viz", TRUE,
             LayerMarkers(header, graph,
                          s3.config_.topology_marker_ns \o "_freespace"))

\* makeTextMarker: the label's id is the node's id.
makeTextMarker(header, node, ns) == AddMarker(header, ns, node)

IdsToDeleteAllPrevious(previous_labels, current_ids) == previous_labels

\* `ids_to_delete`: the previous ids that are not current.
IdsToDelete(previous_labels, current_ids) ==
  {previous \in previous_labels : previous \notin current_ids}

LabelDeleteMarkers(ids_to_delete, ns) ==
  {[action |-> "DELETE", ns |-> ns, id |-> to_delete, header |-> DefaultHeader] :
     to_delete \in ids_to_delete}

\* The two publications on "graph_label_viz", in the order the code makes them.
LabelMessages(delete_markers, labels) == <<delete_markers, labels>>

publishGraphLabels(s, header, graph) ==
  IF ~s.config_.graph_layer.use_label
  THEN read(s, [graph_layer |-> s.config_.graph_layer])
  ELSE
    LET label_ns == s.config_.topology_marker_ns \o "_labels"
        labels == {makeTextMarker(header, node, label_ns) : node \in graph.nodes}
        current_ids == {label.id : label \in labels}
        ids_to_delete == IdsToDelete(s.previous_labels_, current_ids)
        s1 == write([s EXCEPT !.previous_labels_ = current_ids,
                              !.given_labels = graph.nodes],
                    "previous_labels_", "graph_label_viz")
        delete_markers == LabelDeleteMarkers(ids_to_delete, label_ns)
        msgs == LabelMessages(delete_markers, labels)
        s2 == publish(read(s1, LabelConfig(s1)), "graph_label_viz", TRUE, msgs[1])
    IN publish(s2, "graph_label_viz", TRUE, msgs[2])

visualizeGraphNoReturn(s, header, graph) ==
  LET s1 == publish(read(s, GraphConfig(s)), "graph_viz", TRUE,
                    LayerMarkers(header, graph, s.config_.topology_marker_ns))
      s2 == publishFreespace(s1, header, graph)
  IN publishGraphLabels(s2, header, graph)

visualizeGraph(s, header, graph) ==
  IF graph.nodes = {}
  THEN s
  ELSE
    LET s1 == publish(read(s, GraphConfig(s)), "graph_viz", TRUE,
                      LayerMarkers(header, graph, s.config_.topology_marker_ns))
        s2 == publishFreespace(s1, header, graph)
    IN publishGraphLabels(s2, header, graph)

\* --------------------------------------------------- GVD graph and clusters

\* makeGvdGraphMarkers / showGvdClusters: a node marker and an edge marker, or
\* nothing for an empty graph; the caller sets both headers.
GraphMarkerPair(header, graph_empty, ns) ==
  IF graph_empty THEN {}
  ELSE {AddMarker(header, ns \o "_nodes", 0), AddMarker(header, ns \o "_edges", 0)}

DeletePair(header, ns) ==
  {makeDeleteMarker(header, 0, ns \o "_nodes"),
   makeDeleteMarker(header, 0, ns \o "_edges")}

visualizeGvdGraphNoReset(s, header, graph_empty) ==
  LET ns == s.config_.topology_marker_ns \o "_gvd_graph"
      markers == GraphMarkerPair(header, graph_empty, ns)
  IN IF graph_empty /\ s.published_gvd_graph_
     THEN publish(s, "gvd_graph_viz", TRUE, DeletePair(header, ns))
     ELSE IF markers = {}
     THEN publish(read(s, SliceConfig(s)), "gvd_graph_viz", FALSE, markers)
     ELSE publish(write([read(s, SliceConfig(s))
                           EXCEPT !.published_gvd_graph_ = TRUE],
                        "published_gvd_graph_", "gvd_graph_viz"),
                  "gvd_graph_viz", TRUE, markers)

visualizeGvdGraph(s, header, graph_empty) ==
  LET ns == s.config_.topology_marker_ns \o "_gvd_graph"
      markers == GraphMarkerPair(header, graph_empty, ns)
  IN IF graph_empty /\ s.published_gvd_graph_
     THEN publish(write([s EXCEPT !.published_gvd_graph_ = FALSE],
                        "published_gvd_graph_", "gvd_graph_viz"),
                  "gvd_graph_viz", TRUE, DeletePair(header, ns))
     ELSE IF markers = {}
     THEN publish(read(s, SliceConfig(s)), "gvd_graph_viz", FALSE, markers)
     ELSE publish(write([read(s, SliceConfig(s))
                           EXCEPT !.published_gvd_graph_ = TRUE],
                        "published_gvd_graph_", "gvd_graph_viz"),
                  "gvd_graph_viz", TRUE, markers)

\* The "gvd_cluster_viz" publication at the end of visualize.
visualizeClusters(s, header, graph_empty) ==
  LET ns == "gvd_cluster_graph"
      markers == GraphMarkerPair(header, graph_empty, ns)
  IN IF graph_empty /\ s.published_gvd_clusters_
     THEN publish(write([s EXCEPT !.published_gvd_graph_ = FALSE],
                        "published_gvd_graph_", "gvd_cluster_viz"),
                  "gvd_cluster_viz", TRUE, DeletePair(header, ns))
     ELSE IF markers = {}
     THEN publish(read(s, SliceConfig(s)), "gvd_cluster_viz", FALSE, markers)
     ELSE publish(write([read(s, SliceConfig(s))
                           EXCEPT !.published_gvd_clusters_ = TRUE],
                        "published_gvd_clusters_", "gvd_cluster_viz"),
                  "gvd_cluster_viz", TRUE, markers)

\* ------------------------------------------------------------------ a pass

PassHeader(s, timestamp_ns) == Header(s.config_.world_frame, timestamp_ns)

IsCompressionAnyExtractor(extractor) == extractor.kind # "null"

\* dynamic_cast<const CompressionGraphExtractor*>(extractor)
IsCompression(extractor) == extractor.kind = "compression"

visualize(s, timestamp_ns, gvd, extractor) ==
  LET header == PassHeader(s, timestamp_ns)
      s1 == visualizeGvd(s, header, gvd)
      s2 == IF extractor.kind # "null"
            THEN visualizeGvdGraph(visualizeGraph(s1, header, extractor.graph),
                                   header, extractor.gvd_graph_empty)
            ELSE s1
      s3 == IF s2.config_.show_block_outlines
            THEN visualizeBlocks(s2, header, gvd)
            ELSE s2
  IN IF ~IsCompression(extractor)
     THEN s3
     ELSE visualizeClusters(s3, header, extractor.gvd_graph_empty)

\* ------------------------------------------------- the retained-mode surface

\* The namespaces whose markers the visualizer retracts with DELETE markers.
LabelNs == topology_marker_ns \o "_labels"

FreespaceNs == topology_marker_ns \o "_freespace"

GvdGraphNs == topology_marker_ns \o "_gvd_graph"

ClusterNs == "gvd_cluster_graph"

Retracted ==
  {LabelNs, FreespaceNs, GvdGraphNs \o "_nodes", GvdGraphNs \o "_edges",
   ClusterNs \o "_nodes", ClusterNs \o "_edges"}

\* The surface keeps <<ns, id>> of every marker added and not yet deleted; the
\* model follows it for the retracted namespaces.
Apply(shown, markers) ==
  (shown \ {<<m.ns, m.id>> : m \in {d \in markers : d.action = "DELETE"}})
    \cup {<<m.ns, m.id>> :
            m \in {a \in markers : a.action = "ADD" /\ a.ns \in Retracted}}

RECURSIVE Deliver(_, _)
Deliver(shown, msgs) ==
  IF msgs = <<>> THEN shown
  ELSE Deliver(Apply(shown, Head(msgs).markers), Tail(msgs))

\* ------------------------------------------------------------------- state

VARIABLES
  config_,                  \* ReconstructionVisualizerConfig
  previous_labels_,         \* std::set<int>
  previous_spheres_,        \* size_t
  published_gvd_graph_,     \* bool
  published_gvd_clusters_,  \* bool
  surface,                  \* what the retained-mode surface displays
  input,                    \* the operation that ran last, with its arguments
  before,                   \* the object's fields when that operation started
  sent,                     \* the messages it handed to the transport, in order
  invoked,                  \* the channels whose callback it invoked, in order
  reads,                    \* what each of its publications read from config_
  writes,                   \* the assignments it made to the retained members
  given_labels,             \* the node set the last labelling step was given
  last_graph_empty,         \* whether the previous pass had no place to show
  pc,                       \* where a pass that runs step by step stands
  cb,                       \* where a gvdConfigCb that runs step by step stands
  segmented_vertices_pub_,  \* ObjectVisualizer's ObjectCloudPub
  lookups,                  \* the lookups of its last call, in order
  first_channel             \* the channel each label got on its first lookup

\* The state of the object-cloud publishers.
registry == <<segmented_vertices_pub_, lookups, first_channel>>

vars ==
  <<config_, previous_labels_, previous_spheres_, published_gvd_graph_,
    published_gvd_clusters_, surface, input, before, sent, invoked, reads,
    writes, given_labels, last_graph_empty, pc, cb, segmented_vertices_pub_,
    lookups, first_channel>>

Fields ==
  [config_ |-> config_,
   previous_labels_ |-> previous_labels_,
   previous_spheres_ |-> previous_spheres_,
   published_gvd_graph_ |-> published_gvd_graph_,
   published_gvd_clusters_ |-> published_gvd_clusters_]

\* The object at the start of an operation, with empty logs.
Self ==
  [config_ |-> config_,
   previous_labels_ |-> previous_labels_,
   previous_spheres_ |-> previous_spheres_,
   published_gvd_graph_ |-> published_gvd_graph_,
   published_gvd_clusters_ |-> published_gvd_clusters_,
   given_labels |-> given_labels,
   last_graph_empty |-> last_graph_empty,
   sent |-> <<>>, invoked |-> <<>>, reads |-> <<>>, writes |-> <<>>]

Commit(r) ==
  /\ config_' = r.config_
  /\ previous_labels_' = r.previous_labels_
  /\ previous_spheres_' = r.previous_spheres_
  /\ published_gvd_graph_' = r.published_gvd_graph_
  /\ published_gvd_clusters_' = r.published_gvd_clusters_
  /\ given_labels' = r.given_labels
  /\ last_graph_empty' = r.last_graph_empty
  /\ sent' = r.sent
  /\ invoked' = r.invoked
  /\ reads' = r.reads
  /\ writes' = r.writes
  /\ surface' = Deliver(surface, r.sent)
  /\ before' = Fields @@ [surface |-> surface, given_labels |-> given_labels,
                          last_graph_empty |-> last_graph_empty]
  /\ UNCHANGED <<pc, cb, registry>>

\* The constructor: previous_spheres_(0), published_gvd_graph_(false); the
\* set starts empty; published_gvd_clusters_ is given no value; the three
\* reconfigure servers have delivered their initial configuration.
Init ==
  /\ \E outlines \in BOOLEAN, layer \in LayerConfigs,
        colormap \in ColormapConfigs, gvd \in GvdVisualizerConfigs :
       config_ = [world_frame |-> world_frame,
                  topology_marker_ns |-> topology_marker_ns,
                  show_block_outlines |-> outlines,
                  graph_layer |-> layer,
                  graph |-> [layer_z_step |-> 0,
                             color_places_by_distance |-> TRUE,
                             places_colormap_min_distance |-> gvd.gvd_min_distance,
                             places_colormap_max_distance |-> gvd.gvd_max_distance],
                  gvd |-> gvd,
                  colormap |-> colormap]
  /\ previous_labels_ = {}
  /\ previous_spheres_ = 0
  /\ published_gvd_graph_ = FALSE
  /\ published_gvd_clusters_ \in BOOLEAN
  /\ surface = {}
  /\ input = [op |-> "idle"]
  /\ before = [op |-> "idle"]
  /\ sent = <<>>
  /\ invoked = <<>>
  /\ reads = <<>>
  /\ writes = <<>>
  /\ given_labels = {}
  /\ last_graph_empty = TRUE
  /\ pc = "idle"
  /\ cb = [at |-> "idle", served |-> 0]
  /\ segmented_vertices_pub_ = [pubs_ |-> <<>>, advertised |-> 0]
  /\ lookups = <<>>
  /\ first_channel = <<>>

\* ---------------------------------------------------------------- actions

Visualize ==
  \E in \in PassInputs :
    /\ input.op = "idle"
    /\ input' = [op |-> "visualize", timestamp_ns |-> in.timestamp_ns,
                 gvd |-> in.gvd, extractor |-> in.extractor]
    /\ Commit([visualize(Self, in.timestamp_ns, in.gvd, in.extractor)
                 EXCEPT !.last_graph_empty = (in.extractor.graph.nodes = {})])

VisualizeError ==
  \E timestamp_ns \in Timestamps, npoints \in PointCounts :
    /\ input.op = "idle"
    /\ input' = [op |-> "visualizeError", timestamp_ns |-> timestamp_ns,
                 npoints |-> npoints]
    /\ Commit(visualizeError(Self, timestamp_ns, npoints))

graphConfigCb(s, config) == [s EXCEPT !.config_.graph_layer = config]

colormapCb(s, config) == [s EXCEPT !.config_.colormap = config]

gvdConfigCb(s, config) ==
  [s EXCEPT !.config_.gvd = config,
            !.config_.graph.places_colormap_min_distance = config.gvd_min_distance,
            !.config_.graph.places_colormap_max_distance = config.gvd_max_distance]

\* A callback changes config_ alone.
ConfigCommit(r) ==
  /\ config_' = r.config_
  /\ UNCHANGED <<previous_labels_, previous_spheres_, published_gvd_graph_,
                 published_gvd_clusters_, surface, input, before, sent, invoked,
                 reads, writes, given_labels, last_graph_empty, pc, cb,
                 registry>>

GraphConfigCb ==
  \E config \in LayerConfigs :
    /\ input.op = "idle"
    /\ ConfigCommit(graphConfigCb(Self, config))

ColormapCb ==
  \E config \in ColormapConfigs :
    /\ input.op = "idle"
    /\ ConfigCommit(colormapCb(Self, config))

GvdConfigCb ==
  \E config \in GvdVisualizerConfigs :
    /\ input.op = "idle"
    /\ ConfigCommit(gvdConfigCb(Self, config))

\* The caller is back in its loop: what was observed of the finished operation
\* is dropped.
Idle ==
  /\ input.op # "idle"
  /\ pc \in {"idle", "done"}
  /\ pc' = "idle"
  /\ input' = [op |-> "idle"]
  /\ before' = [op |-> "idle"]
  /\ sent' = <<>>
  /\ invoked' = <<>>
  /\ reads' = <<>>
  /\ writes' = <<>>
  /\ UNCHANGED <<config_, previous_labels_, previous_spheres_,
                 published_gvd_graph_, published_gvd_clusters_, surface,
                 given_labels, last_graph_empty, cb, registry>>

Next ==
  \/ Idle
  \/ Visualize
  \/ VisualizeError
  \/ GraphConfigCb
  \/ ColormapCb
  \/ GvdConfigCb

Spec == Init /\ [][Next]_vars

\* ------------------------------------ a pass and the callbacks, interleaved
\* visualize runs on the caller's thread and the reconfigure callbacks on the
\* thread that serves the requests; nothing in the class orders their accesses
\* to config_. Here a pass advances one publication group at a time and
\* gvdConfigCb one assignment at a time.

ConcExtractors ==
  {NullExtractor,
   [kind |-> "compression", graph |-> [nodes |-> {1}], gvd_graph_empty |-> FALSE]}

ConcInputs ==
  {in \in PassInputs :
     /\ in.timestamp_ns = 1
     /\ in.gvd = FullLayer
     /\ in.extractor \in ConcExtractors}

InPass == pc \notin {"idle", "done"}

\* The object as the running pass finds it, with what the pass logged so far.
Cur ==
  [Self EXCEPT !.sent = sent, !.invoked = invoked, !.reads = reads,
               !.writes = writes]

StepCommit(r, next) ==
  /\ previous_labels_' = r.previous_labels_
  /\ previous_spheres_' = r.previous_spheres_
  /\ published_gvd_graph_' = r.published_gvd_graph_
  /\ published_gvd_clusters_' = r.published_gvd_clusters_
  /\ given_labels' = r.given_labels
  /\ sent' = r.sent
  /\ invoked' = r.invoked
  /\ reads' = r.reads
  /\ writes' = r.writes
  /\ surface' = Deliver(surface, SubSeq(r.sent, Len(sent) + 1, Len(r.sent)))
  /\ pc' = next
  /\ UNCHANGED <<config_, input, before, last_graph_empty, cb, registry>>

BeginPass ==
  \E in \in ConcInputs :
    /\ pc = "idle"
    /\ input.op = "idle"
    /\ input' = [op |-> "visualize", timestamp_ns |-> in.timestamp_ns,
                 gvd |-> in.gvd, extractor |-> in.extractor]
    /\ before' = Fields @@ [surface |-> surface, given_labels |-> given_labels,
                            last_graph_empty |-> last_graph_empty]
    /\ last_graph_empty' = (in.extractor.graph.nodes = {})
    /\ pc' = "visualizeGvd"
    /\ cb' = [cb EXCEPT !.served = 0]
    /\ UNCHANGED <<config_, previous_labels_, previous_spheres_,
                   published_gvd_graph_, published_gvd_clusters_, surface, sent,
                   invoked, reads, writes, given_labels, registry>>

StepGvd ==
  /\ pc = "visualizeGvd"
  /\ StepCommit(visualizeGvd(Cur, PassHeader(Cur, input.timestamp_ns), input.gvd),
                "visualizeGraph")

StepGraph ==
  /\ pc = "visualizeGraph"
  /\ StepCommit(IF input.extractor.kind # "null"
                THEN visualizeGraph(Cur, PassHeader(Cur, input.timestamp_ns),
                                    input.extractor.graph)
                ELSE Cur,
                "visualizeGvdGraph")

StepGvdGraph ==
  /\ pc = "visualizeGvdGraph"
  /\ StepCommit(IF input.extractor.kind # "null"
                THEN visualizeGvdGraph(Cur, PassHeader(Cur, input.timestamp_ns),
                                       input.extractor.gvd_graph_empty)
                ELSE Cur,
                "visualizeBlocks")

StepBlocks ==
  /\ pc = "visualizeBlocks"
  /\ StepCommit(IF config_.show_block_outlines
                THEN visualizeBlocks(Cur, PassHeader(Cur, input.timestamp_ns),
                                     input.gvd)
                ELSE Cur,
                "clusters")

StepClusters ==
  /\ pc = "clusters"
  /\ StepCommit(IF IsCompression(input.extractor)
                THEN visualizeClusters(Cur, PassHeader(Cur, input.timestamp_ns),
                                       input.extractor.gvd_graph_empty)
                ELSE Cur,
                "done")

\* A callback on the serving thread, at any point of a pass.
ConcConfigCommit(r, at) ==
  /\ config_' = r.config_
  /\ cb' = at
  /\ UNCHANGED <<previous_labels_, previous_spheres_, published_gvd_graph_,
                 published_gvd_clusters_, surface, input, before, sent, invoked,
                 reads, writes, given_labels, last_graph_empty, pc, registry>>

ConcGraphConfigCb ==
  \E config \in LayerConfigs :
    /\ InPass /\ cb.at = "idle" /\ cb.served < MaxCallbacks
    /\ ConcConfigCommit(graphConfigCb(Self, config),
                        [cb EXCEPT !.served = @ + 1])

ConcColormapCb ==
  \E config \in ColormapConfigs :
    /\ InPass /\ cb.at = "idle" /\ cb.served < MaxCallbacks
    /\ ConcConfigCommit(colormapCb(Self, config),
                        [cb EXCEPT !.served = @ + 1])

\* gvdConfigCb, one assignment at a time.
GvdCbAssignGvd ==
  \E config \in GvdVisualizerConfigs :
    /\ InPass /\ cb.at = "idle" /\ cb.served < MaxCallbacks
    /\ ConcConfigCommit([Self EXCEPT !.config_.gvd = config],
                        [at |-> "min_distance", served |-> cb.served + 1,
                         config |-> config])

GvdCbAssignMin ==
  /\ cb.at = "min_distance"
  /\ ConcConfigCommit(
       [Self EXCEPT !.config_.graph.places_colormap_min_distance =
                      cb.config.gvd_min_distance],
       [at |-> "max_distance", served |-> cb.served, config |-> cb.config])

GvdCbAssignMax ==
  /\ cb.at = "max_distance"
  /\ ConcConfigCommit(
       [Self EXCEPT !.config_.graph.places_colormap_max_distance =
                      cb.config.gvd_max_distance],
       [at |-> "idle", served |-> cb.served])

NextConc ==
  \/ BeginPass
  \/ StepGvd
  \/ StepGraph
  \/ StepGvdGraph
  \/ StepBlocks
  \/ StepClusters
  \/ Idle
  \/ ConcGraphConfigCb
  \/ ConcColormapCb
  \/ GvdCbAssignGvd
  \/ GvdCbAssignMin
  \/ GvdCbAssignMax

SpecConc == Init /\ [][NextConc]_vars

\* ------------------------------------------- the object-cloud publishers
\* ObjectVisualizer keeps one publisher per semantic label in
\* segmented_vertices_pub_ (ObjectCloudPub); publishObjectClouds looks up the
\* publisher of every label of label_indices.

\* Semantic labels (uint32_t) range over 0..MaxLabel.
MaxLabel == 2

Labels == 0 .. MaxLabel

\* LabelIndices: the labels one call brings clouds for.
LabelIndices == SUBSET Labels

\* A publisher advertised for `label`: its topic ends in the label's decimal
\* form, and `handle` tells one advertise call from another.
advertise(label, handle) ==
  [topic |-> "object_vertices_" \o ToString(label), handle |-> handle]

get_or_createAlwaysNew(pub, key) ==
  LET channel == advertise(key, pub.advertised + 1)
  IN [pub |-> [pubs_ |-> [k \in DOMAIN pub.pubs_ \cup {key} |->
                            IF k = key THEN channel ELSE pub.pubs_[k]],
               advertised |-> pub.advertised + 1],
      channel |-> channel]

\* SemanticRosPublishers: the first lookup of a key advertises a publisher and
\* caches it; later lookups return the cached one.
get_or_create(pub, key) ==
  IF key \in DOMAIN pub.pubs_
  THEN [pub |-> pub, channel |-> pub.pubs_[key]]
  ELSE LET channel == advertise(key, pub.advertised + 1)
       IN [pub |-> [pubs_ |-> [k \in DOMAIN pub.pubs_ \cup {key} |->
                                 IF k = key THEN channel ELSE pub.pubs_[k]],
                    advertised |-> pub.advertised + 1],
           channel |-> channel]

\* The lookups of one call, in the order of the labels (a std::map).
RECURSIVE LookupAll(_, _, _)
LookupAll(pub, labels, done) ==
  IF labels = {} THEN [pub |-> pub, lookups |-> done]
  ELSE LET label == CHOOSE l \in labels : \A other \in labels : l <= other
           r == get_or_create(pub, label)
       IN LookupAll(r.pub, labels \ {label},
                    Append(done, [label |-> label, channel |-> r.channel]))

\* The channel each label got on its first lookup.
RECURSIVE Remember(_, _)
Remember(first, done) ==
  IF done = <<>> THEN first
  ELSE LET l == Head(done)
       IN Remember(IF l.label \in DOMAIN first THEN first
                   ELSE [k \in DOMAIN first \cup {l.label} |->
                           IF k = l.label THEN l.channel ELSE first[k]],
                   Tail(done))

publishObjectClouds ==
  \E label_indices \in LabelIndices :
    LET r == LookupAll(segmented_vertices_pub_, label_indices, <<>>)
    IN /\ segmented_vertices_pub_' = r.pub
       /\ lookups' = r.lookups
       /\ first_channel' = Remember(first_channel, r.lookups)
       /\ UNCHANGED <<config_, previous_labels_, previous_spheres_,
                      published_gvd_graph_, published_gvd_clusters_, surface,
                      input, before, sent, invoked, reads, writes,
                      given_labels, last_graph_empty, pc, cb>>

NextRegistry == publishObjectClouds

SpecRegistry == Init /\ [][NextRegistry]_vars

\* ------------------------------------------------------------ observations

IsPass == input.op = "visualize"

\* The places graph the finished pass was given.
PassNodes == input.extractor.graph.nodes

\* The pass reached visualizeGraph's publications (a non-null extractor whose
\* graph has nodes).
GraphStep == IsPass /\ input.extractor.kind # "null" /\ PassNodes # {}

\* The pass ran publishGraphLabels past its use_label test.
LabelStep == GraphStep /\ config_.graph_layer.use_label

\* The messages sent on one channel, in order.
Msgs(chan) == SelectSeq(sent, LAMBDA msg : msg.chan = chan)

Invocations(chan) == Len(SelectSeq(invoked, LAMBDA name : name = chan))

AllMarkers(chan) == UNION {Msgs(chan)[i].markers : i \in DOMAIN Msgs(chan)}

\* The ids the DELETE markers sent on `chan` carry in namespace `ns`.
DeletedIds(chan, ns) ==
  {m.id : m \in {d \in AllMarkers(chan) : d.action = "DELETE" /\ d.ns = ns}}

\* The ids a surface displays in namespace `ns`.
ShownIds(shown, ns) == {e[2] : e \in {x \in shown : x[1] = ns}}

\* The object as it was when the finished operation started.
SelfBefore ==
  [config_ |-> before.config_,
   previous_labels_ |-> before.previous_labels_,
   previous_spheres_ |-> before.previous_spheres_,
   published_gvd_graph_ |-> before.published_gvd_graph_,
   published_gvd_clusters_ |-> before.published_gvd_clusters_,
   given_labels |-> before.given_labels,
   last_graph_empty |-> before.last_graph_empty,
   sent |-> <<>>, invoked |-> <<>>, reads |-> <<>>, writes |-> <<>>]

\* ------------------------------------------------------------------ claims

\* C1: at every labelling step (labels enabled) the DELETE markers sent in
\* the labels namespace carry exactly the ids of the previous step's node set
\* that are not in this step's node set (the first step's previous set being
\* empty), and previous_labels_ is this step's node set afterwards.
C1_LabelDeletionsAreSetDifference ==
  LabelStep =>
    /\ DeletedIds("graph_label_viz", LabelNs) = before.given_labels \ PassNodes
    /\ previous_labels_ = PassNodes

\* A labelling step that drops node 1 and keeps node 2.
C1_Witness ==
  /\ LabelStep
  /\ before.given_labels = {1, 2}
  /\ PassNodes = {2}
  /\ DeletedIds("graph_label_viz", LabelNs) = {1}

\* C2: a pass with a non-null extractor whose graph has no nodes, following a
\* pass whose graph had nodes, sends a non-empty batch of DELETE markers that
\* retracts every label id and every sphere id shown before it.
C2_EmptyGraphRetracts ==
  (IsPass /\ input.extractor.kind # "null" /\ PassNodes = {}
     /\ ~before.last_graph_empty
     /\ ShownIds(before.surface, LabelNs) # {}
     /\ ShownIds(before.surface, FreespaceNs) # {})
  =>
    LET labels  == DeletedIds("graph_label_viz", LabelNs)
        spheres == DeletedIds("freespace_viz", FreespaceNs)
    IN /\ labels \cup spheres # {}
       /\ ShownIds(before.surface, LabelNs) \subseteq labels
       /\ ShownIds(before.surface, FreespaceNs) \subseteq spheres

\* C3: publishFreespace with prior count p and current count c sends DELETE
\* markers for exactly the ids in [c, p) (none when c >= p).
C3_FreespaceDeletesOnlyVanished ==
  GraphStep =>
    LET p == before.previous_spheres_
        c == Cardinality(makePlaceSpheres(DefaultHeader, input.extractor.graph,
                                          FreespaceNs))
    IN DeletedIds("freespace_viz", FreespaceNs) = {id \in 0 .. p - 1 : id >= c}

\* C4: after every completed pass the label ids and sphere ids the surface
\* displays are ids of that pass's graph (none when the pass had no graph).
C4_SurfaceShowsOnlyCurrent ==
  IsPass =>
    /\ ShownIds(surface, LabelNs) \subseteq PassNodes
    /\ ShownIds(surface, FreespaceNs) \subseteq 0 .. Cardinality(PassNodes) - 1

\* The slice publications of a pass, or the error publication, with the number
\* of points of the marker each callback built.
GatedPublications ==
  IF IsPass
  THEN {<<"esdf_viz", input.gvd.esdf>>, <<"gvd_viz", input.gvd.gvd>>,
        <<"surface_viz", input.gvd.surface>>}
  ELSE IF input.op = "visualizeError"
  THEN {<<"error_viz", input.npoints>>}
  ELSE {}

\* C5: each gated publication invokes its callback once, and the transport
\* gets one message when the marker has a point and none when it has no point.
C5_GateSendsIffPoints ==
  \A g \in GatedPublications :
    /\ Invocations(g[1]) = 1
    /\ Len(Msgs(g[1])) = IF g[2] > 0 THEN 1 ELSE 0

\* A pass whose ESDF slice has points and whose GVD slice has none.
C5_Witness ==
  /\ IsPass
  /\ input.gvd.esdf > 0
  /\ input.gvd.gvd = 0
  /\ Len(Msgs("esdf_viz")) = 1
  /\ Len(Msgs("gvd_viz")) = 0

\* On `chan` the pass sent two messages: first one of DELETE markers only, then
\* the current elements, all of which the surface displays afterwards.
DeletesThenCurrent(chan) ==
  LET ms == Msgs(chan)
  IN /\ Len(ms) = 2
     /\ \A m \in ms[1].markers : m.action = "DELETE"
     /\ ms[2].markers # {}
     /\ \A m \in ms[2].markers : m.action = "ADD" /\ <<m.ns, m.id>> \in surface

\* C6: within a pass the DELETE message precedes the message of current
\* elements on "freespace_viz" and on "graph_label_viz", so an id in both ends
\* the pass displayed.
C6_DeletesBeforeCurrent ==
  /\ GraphStep => DeletesThenCurrent("freespace_viz")
  /\ LabelStep => DeletesThenCurrent("graph_label_viz")

\* A pass whose delete batch and payload both hold sphere id 0.
C6_Witness ==
  /\ GraphStep
  /\ 0 \in DeletedIds("freespace_viz", FreespaceNs)
  /\ <<FreespaceNs, 0>> \in surface

\* C7: no message without markers is sent on "freespace_viz" or
\* "graph_label_viz": a delete batch goes out only for a non-empty deletion
\* set (so none on the first pass).
C7_NoEmptyDeleteBatch ==
  IsPass =>
    \A chan \in {"freespace_viz", "graph_label_viz"} :
      \A i \in DOMAIN Msgs(chan) : Msgs(chan)[i].markers # {}

\* C8: every marker sent during a pass carries the header of that pass (its
\* frame and the stamp of timestamp_ns).
C8_OneHeaderPerPass ==
  IsPass =>
    \A i \in DOMAIN sent :
      \A m \in sent[i].markers :
        m.header = Header(world_frame, input.timestamp_ns)

\* The messages a pass sent, without those of "gvd_cluster_viz".
WithoutClusters(msgs) == SelectSeq(msgs, LAMBDA msg : msg.chan # "gvd_cluster_viz")

\* The same pass had its extractor been a CompressionGraphExtractor.
AsCompression ==
  visualize(SelfBefore, input.timestamp_ns, input.gvd,
            [input.extractor EXCEPT !.kind = "compression"])

SliceChannels == {"esdf_viz", "gvd_viz", "surface_viz", "voxel_block_viz"}

\* C9: a pass whose extractor is null or no CompressionGraphExtractor sends
\* nothing on "gvd_cluster_viz", leaves published_gvd_clusters_ as it was, and
\* makes every other publication as with a compression extractor (for a null
\* extractor: the slice and block publications).
C9_NoCompressionSkipsClustersOnly ==
  (IsPass /\ input.extractor.kind # "compression") =>
    /\ Msgs("gvd_cluster_viz") = <<>>
    /\ Invocations("gvd_cluster_viz") = 0
    /\ published_gvd_clusters_ = before.published_gvd_clusters_
    /\ IF input.extractor.kind = "null"
       THEN sent = SelectSeq(AsCompression.sent,
                             LAMBDA msg : msg.chan \in SliceChannels)
       ELSE sent = WithoutClusters(AsCompression.sent)

\* A pass with a plain extractor whose GVD graph a compression extractor
\* would have shown as clusters.
C9_Witness ==
  /\ IsPass
  /\ input.extractor.kind = "generic"
  /\ ~input.extractor.gvd_graph_empty
  /\ PassNodes # {}
  /\ Len(AsCompression.sent) = Len(sent) + 1

\* The fields of config_ two publications both read have the same value.
SameWhereBothRead(r1, r2) ==
  \A f \in DOMAIN r1 \cap DOMAIN r2 : r1[f] = r2[f]

\* The color bounds one publication read from config_.graph are those of the
\* config_.gvd another publication read.
BoundsFollowGvd(r1, r2) ==
  ("gvd" \in DOMAIN r1 /\ "graph" \in DOMAIN r2) =>
    /\ r2.graph.places_colormap_min_distance = r1.gvd.gvd_min_distance
    /\ r2.graph.places_colormap_max_distance = r1.gvd.gvd_max_distance

\* C10: with callbacks running while a pass is in progress, every publication
\* of the pass has read one parameter set, and none has seen gvdConfigCb's
\* config_.gvd without its places_colormap_min_distance and
\* places_colormap_max_distance.
C10_PassReadsOneParameterSet ==
  pc = "done" =>
    \A i, j \in DOMAIN reads :
      SameWhereBothRead(reads[i], reads[j]) /\ BoundsFollowGvd(reads[i], reads[j])

\* The publishers the registry holds.
Pubs == segmented_vertices_pub_.pubs_

\* C11: after any sequence of lookups every label ever requested maps to one
\* channel, the one advertised on its first lookup: a repeated lookup returns
\* it, two labels never share a channel, and no entry is removed or replaced.
C11_RegistryKeepsFirstChannel ==
  /\ DOMAIN Pubs = DOMAIN first_channel
  /\ \A label \in DOMAIN first_channel : Pubs[label] = first_channel[label]
  /\ \A i \in DOMAIN lookups : lookups[i].channel = first_channel[lookups[i].label]
  /\ \A k1, k2 \in DOMAIN Pubs :
       k1 # k2 => /\ Pubs[k1].handle # Pubs[k2].handle
                  /\ Pubs[k1].topic # Pubs[k2].topic

\* A call that looks up label 1 again, after label 2 was advertised in between,
\* and a new label 0.
C11_Witness ==
  /\ Len(lookups) = 2
  /\ lookups[1].label = 0 /\ lookups[1].channel.handle = 3
  /\ lookups[2].label = 1 /\ lookups[2].channel.handle = 1
  /\ DOMAIN Pubs = {0, 1, 2}
  /\ Pubs[2].handle = 2

\* The finished pass run once more from the state it left, with the same
\* timestamp, map and extractor.
Again == visualize(Self, input.timestamp_ns, input.gvd, input.extractor)

\* C12: visualize called a second time with the same arguments leaves the
\* surface and previous_labels_, previous_spheres_, published_gvd_graph_ and
\* published_gvd_clusters_ as the first call left them.
C12_VisualizeIdempotent ==
  IsPass =>
    LET again == Again
    IN /\ Deliver(surface, again.sent) = surface
       /\ again.previous_labels_ = previous_labels_
       /\ again.previous_spheres_ = previous_spheres_
       /\ again.published_gvd_graph_ = published_gvd_graph_
       /\ again.published_gvd_clusters_ = published_gvd_clusters_

\* A pass that changed the labels, the spheres and both flags, and whose
\* repetition deletes and re-adds spheres.
C12_Witness ==
  /\ LabelStep
  /\ IsCompression(input.extractor) /\ ~input.extractor.gvd_graph_empty
  /\ before.previous_labels_ # previous_labels_
  /\ before.previous_spheres_ # previous_spheres_
  /\ ~before.published_gvd_graph_ /\ ~before.published_gvd_clusters_
  /\ \E i \in DOMAIN Again.sent :
       \E m \in Again.sent[i].markers : m.action = "DELETE" /\ m.ns = FreespaceNs

\* The passes whose GVD graph is empty (a null extractor has none).
EmptyGvdInputs == {in \in PassInputs : in.extractor.gvd_graph_empty}

\* What `s` sends on "gvd_cluster_viz" in a pass with arguments `in`.
ClusterMsgs(s, in) ==
  SelectSeq(visualize(s, in.timestamp_ns, in.gvd, in.extractor).sent,
            LAMBDA msg : msg.chan = "gvd_cluster_viz")

\* The object a pass with arguments `in` leaves, ready for the next pass.
After(s, in) ==
  [visualize(s, in.timestamp_ns, in.gvd, in.extractor)
     EXCEPT !.sent = <<>>, !.invoked = <<>>, !.reads = <<>>, !.writes = <<>>]

\* The finished pass had an empty GVD graph and sent the two DELETE markers
\* for cluster markers that an earlier pass had published.
ClustersRetracted ==
  /\ IsPass
  /\ input.extractor.gvd_graph_empty
  /\ ShownIds(before.surface, ClusterNs \o "_nodes") = {0}
  /\ ShownIds(before.surface, ClusterNs \o "_edges") = {0}
  /\ Len(Msgs("gvd_cluster_viz")) = 1
  /\ DeletedIds("gvd_cluster_viz", ClusterNs \o "_nodes") = {0}
  /\ DeletedIds("gvd_cluster_viz", ClusterNs \o "_edges") = {0}

\* C13: once a pass with an empty GVD graph has sent the two DELETE markers
\* for published cluster markers, the consecutive passes that follow with a
\* GVD graph still empty send nothing on "gvd_cluster_viz".
C13_ClusterRetractionSentOnce ==
  ClustersRetracted =>
    \A in1 \in EmptyGvdInputs :
      /\ ClusterMsgs(Self, in1) = <<>>
      /\ \A in2 \in EmptyGvdInputs : ClusterMsgs(After(Self, in1), in2) = <<>>

\* The finished pass up to its "gvd_cluster_viz" publication.
BeforeClusters ==
  visualize(SelfBefore, input.timestamp_ns, input.gvd,
            [input.extractor EXCEPT !.kind = "generic"])

\* The members the processing of `chan` assigned during the finished pass.
WrittenBy(chan) ==
  {writes[i].field : i \in {j \in DOMAIN writes : writes[j].by = chan}}

\* C14: the "gvd_cluster_viz" publication of a pass leaves published_gvd_graph_
\* at the value it had before that publication, and published_gvd_clusters_ is
\* the only retained member it writes.
C14_ClustersWriteOwnFlagOnly ==
  (IsPass /\ IsCompression(input.extractor)) =>
    /\ published_gvd_graph_ = BeforeClusters.published_gvd_graph_
    /\ WrittenBy("gvd_cluster_viz") \subseteq {"published_gvd_clusters_"}

\* The value of published_gvd_graph_ alone: the cluster publication of a pass
\* never changes it.
C14_GvdGraphFlagValueKept ==
  (IsPass /\ IsCompression(input.extractor)) =>
    published_gvd_graph_ = BeforeClusters.published_gvd_graph_

\* The finished pass called visualizeGvdGraph (its extractor is not null).
GvdGraphStep == IsPass /\ input.extractor.kind # "null"

\* The markers of the GVD graph a surface displays.
GvdGraphShown(shown) ==
  {x \in shown : x[1] \in {GvdGraphNs \o "_nodes", GvdGraphNs \o "_edges"}}

\* The pass sent the pair of DELETE markers on "gvd_graph_viz".
GvdGraphDeleted ==
  /\ DeletedIds("gvd_graph_viz", GvdGraphNs \o "_nodes") = {0}
  /\ DeletedIds("gvd_graph_viz", GvdGraphNs \o "_edges") = {0}

\* The pass sent a non-empty array of markers to display on "gvd_graph_viz".
GvdGraphAdded ==
  \E i \in DOMAIN Msgs("gvd_graph_viz") :
    /\ Msgs("gvd_graph_viz")[i].markers # {}
    /\ \A m \in Msgs("gvd_graph_viz")[i].markers : m.action = "ADD"

\* C15: starting from published_gvd_graph_ = false, a call of visualizeGvdGraph
\* sends the two DELETE markers exactly when the graph is empty and the flag is
\* true, and then resets the flag; the flag becomes true only on a call that
\* sends a non-empty marker array; so the flag is true exactly when the
\* surface displays markers of the GVD graph.
C15_GvdGraphFlagTracksSurface ==
  /\ published_gvd_graph_ <=> GvdGraphShown(surface) # {}
  /\ GvdGraphStep =>
       /\ (DeletedIds("gvd_graph_viz", GvdGraphNs \o "_nodes") # {}
             \/ DeletedIds("gvd_graph_viz", GvdGraphNs \o "_edges") # {})
          <=> (input.extractor.gvd_graph_empty /\ before.published_gvd_graph_)
       /\ (input.extractor.gvd_graph_empty /\ before.published_gvd_graph_)
          => (GvdGraphDeleted /\ ~published_gvd_graph_)
       /\ (~before.published_gvd_graph_ /\ published_gvd_graph_) => GvdGraphAdded

\* A call with an empty graph that retracts the markers an earlier call had
\* displayed.
C15_Witness ==
  /\ GvdGraphStep
  /\ input.extractor.gvd_graph_empty
  /\ before.published_gvd_graph_
  /\ GvdGraphShown(before.surface) # {}
  /\ GvdGraphDeleted
  /\ ~published_gvd_graph_
  /\ GvdGraphShown(surface) = {}

\* C16: with every sent message delivered, after every completed pass
\* previous_labels_ is the set of label ids the surface displays in the labels
\* namespace and the surface displays the sphere ids 0 .. previous_spheres_ - 1
\* in the freespace namespace.
C16_PriorStateIsSurface ==
  /\ ShownIds(surface, LabelNs) = previous_labels_
  /\ ShownIds(surface, FreespaceNs) = 0 .. previous_spheres_ - 1

\* A pass after which one label and one sphere remain of two.
C16_Witness ==
  /\ LabelStep
  /\ before.previous_labels_ = {1, 2}
  /\ before.previous_spheres_ = 2
  /\ ShownIds(before.surface, FreespaceNs) = {0, 1}
  /\ previous_labels_ = {2}
  /\ previous_spheres_ = 1
  /\ ShownIds(surface, LabelNs) = {2}
  /\ ShownIds(surface, FreespaceNs) = {0}

GraphChannels ==
  {"graph_viz", "freespace_viz", "freespace_graph_viz", "graph_label_viz"}

\* C17: a pass whose extractor is null or whose graph has no nodes leaves
\* previous_labels_ and previous_spheres_ as they were and sends nothing on
\* "graph_viz", "freespace_viz", "freespace_graph_viz" and "graph_label_viz";
\* a pass that shows a graph with labels disabled leaves previous_labels_ as it
\* was and sends nothing on "graph_label_viz".
C17_SkippedGraphTouchesNothing ==
  IsPass =>
    /\ (input.extractor.kind = "null" \/ PassNodes = {}) =>
         /\ previous_labels_ = before.previous_labels_
         /\ previous_spheres_ = before.previous_spheres_
         /\ \A chan \in GraphChannels : Msgs(chan) = <<>>
    /\ (GraphStep /\ ~config_.graph_layer.use_label) =>
         /\ previous_labels_ = before.previous_labels_
         /\ Msgs("graph_label_viz") = <<>>

\* A pass with an extractor whose graph has no nodes, after a pass that showed
\* two labelled places.
C17_Witness ==
  /\ IsPass
  /\ input.extractor.kind # "null"
  /\ PassNodes = {}
  /\ before.previous_labels_ = {1, 2}
  /\ before.previous_spheres_ = 2
  /\ previous_labels_ = {1, 2}
  /\ previous_spheres_ = 2
  /\ \A chan \in GraphChannels : Msgs(chan) = <<>>

\* How many times `chan` occurs among the channels handed to the publisher
\* group.
Handed(handed, chan) == Len(SelectSeq(handed, LAMBDA name : name = chan))

\* C18: in a pass previous_spheres_ is assigned only after the delete batch
\* and the spheres have been handed to the publisher group on "freespace_viz",
\* and previous_labels_ only after the delete batch and the labels have been
\* handed to it on "graph_label_viz".
C18_PriorStateWrittenAfterPublish ==
  IsPass =>
    \A i \in DOMAIN writes :
      /\ writes[i].field = "previous_spheres_" =>
           Handed(writes[i].handed, "freespace_viz") = 2
      /\ writes[i].field = "previous_labels_" =>
           Handed(writes[i].handed, "graph_label_viz") = 2

====
